---- MODULE Spec2Model ----
(***************************************************************************)
(* A model of blug's "generate" run (src/blug/blug.py): generate_site      *)
(* clears the output directory, get_all_posts loads the content directory, *)
(* generate_all_files sorts the posts, builds the category index, renders  *)
(* the static and pagination pages and then one page per post.             *)
(*                                                                         *)
(* Strings are sequences of one-character strings, so that slugs, dates    *)
(* and paths are computed character by character as the code does.         *)
(* An optional value (None, or a missing dictionary key) is the empty      *)
(* sequence; a present value v is <<v>>.                                   *)
(***************************************************************************)
EXTENDS Integers, Sequences, FiniteSets, TLC

\* ------------------------------------------------------------------ bounds

\* Largest content directory whose files are drawn from every file shape.
MaxFiles == 3
\* Largest content directory of well-formed posts (pagination needs > 10).
MaxPlainFiles == 12
\* Longest title enumerated exhaustively over TitleAlphabet.
MaxTitleLen == 3

\* Page size of the listing pages: posts[:5], range(5, n, 5), index + 5.
PageSize == 5

\* ----------------------------------------------------------------- strings

None == << >>

Some(v) == <<v>>

UpperChars == <<"A","B","C","D","E","F","G","H","I","J","K","L","M",
                "N","O","P","Q","R","S","T","U","V","W","X","Y","Z">>

LowerChars == <<"a","b","c","d","e","f","g","h","i","j","k","l","m",
                "n","o","p","q","r","s","t","u","v","w","x","y","z">>

DigitChars == <<"0","1","2","3","4","5","6","7","8","9">>

Range(s) == {s[i] : i \in DOMAIN s}

\* str.lower() on one ASCII character (files are read with encoding='ascii').
LowerOf == [i \in DOMAIN UpperChars |-> LowerChars[i]]

UpperSet == Range(UpperChars)

UpperIndex == [c \in UpperSet |-> CHOOSE i \in DOMAIN UpperChars : UpperChars[i] = c]

Lower(c) == IF c \in UpperSet THEN LowerOf[UpperIndex[c]] ELSE c

\* str.isalnum() on one ASCII character.
AlnumChars == Range(UpperChars) \cup Range(LowerChars) \cup Range(DigitChars)

IsAlnum(c) == c \in AlnumChars

StartsWithSlash(s) == Len(s) > 0 /\ s[1] = "/"

EndsWithSlash(s) == Len(s) > 0 /\ s[Len(s)] = "/"

\* str(n) for n >= 0.
RECURSIVE Str(_)
Str(n) == IF n < 10 THEN <<DigitChars[n + 1]>>
          ELSE Str(n \div 10) \o <<DigitChars[(n % 10) + 1]>>

\* A zero-padded decimal field of strftime (%Y: width 4, %m and %d: width 2).
Pad(n, w) ==
    LET s == Str(n)
    IN  [i \in 1..(IF w > Len(s) THEN w - Len(s) ELSE 0) |-> "0"] \o s

\* os.path.join(path, rest[1], rest[2], ...): a component that starts with
\* '/' restarts the path; a separator is added unless the path so far is
\* empty or already ends with '/'.
RECURSIVE JoinFrom(_, _)
JoinFrom(path, rest) ==
    IF rest = << >> THEN path
    ELSE LET b == Head(rest)
             next == IF StartsWithSlash(b) THEN b
                     ELSE IF path = << >> \/ EndsWithSlash(path) THEN path \o b
                     ELSE path \o <<"/">> \o b
         IN  JoinFrom(next, Tail(rest))

Join(parts) == JoinFrom(Head(parts), Tail(parts))

\* ----------------------------------------------------------- slug and path

\* Variant: hyphens of the title are kept as well.
FileNameKeepingHyphens(title) ==
    LET lowered == [i \in DOMAIN title |-> Lower(title[i])]
        Keep(c) == IsAlnum(c) \/ c = " " \/ c = "-"
        kept == SelectSeq(lowered, Keep)
    IN  [i \in DOMAIN kept |-> IF kept[i] = " " THEN "-" ELSE kept[i]]

\* ''.join(char for char in title.lower() if char.isalnum() or char == ' ')
\*   .replace(' ', '-')
generate_post_file_name(title) ==
    LET lowered == [i \in DOMAIN title |-> Lower(title[i])]
        Keep(c) == IsAlnum(c) \/ c = " "
        kept == SelectSeq(lowered, Keep)
    IN  [i \in DOMAIN kept |-> IF kept[i] = " " THEN "-" ELSE kept[i]]

\* A date is <<year, month, day, hour, minute>>, what strptime returns for
\* '%Y-%m-%d %H:%M'.  strftime(date, '%Y/%m/%d/'), for years of four digits.
Strftime(date) ==
    Pad(date[1], 4) \o <<"/">> \o Pad(date[2], 2) \o <<"/">>
        \o Pad(date[3], 2) \o <<"/">>

generate_post_file_path(title, date) ==
    Join(<<Strftime(date), generate_post_file_name(title)>>)

\* ------------------------------------------------------------------ loader

\* str.split(): the maximal runs of non-space characters.
RECURSIVE SplitFrom(_, _, _)
SplitFrom(s, cur, acc) ==
    IF s = << >> THEN (IF cur = << >> THEN acc ELSE Append(acc, cur))
    ELSE IF Head(s) = " "
         THEN SplitFrom(Tail(s), << >>, IF cur = << >> THEN acc ELSE Append(acc, cur))
         ELSE SplitFrom(Tail(s), Append(cur, Head(s)), acc)

Split(s) == SplitFrom(s, << >>, << >>)

\* The first metadata key whose lookup raises KeyError, in the order the
\* loader reads them: Meta['title'], Meta['categories'], Meta['date'].
MissingKey(file) ==
    IF file.title = None THEN "title"
    ELSE IF file.categories = None THEN "categories"
    ELSE IF file.date = None THEN "date"
    ELSE ""

\* Variant: the prefix is concatenated, not joined.
PrefixedWithoutSeparator(blog_prefix, path) == blog_prefix \o path

\* if blog_prefix: relative_path = os.path.join(blog_prefix, relative_path)
Prefixed(blog_prefix, path) ==
    IF blog_prefix # << >> THEN Join(<<blog_prefix, path>>) ELSE path

\* The post dictionary built from one .md file; id is the file's position in
\* the directory listing and stands for the identity of the dictionary.
LoadPost(file, id, blog_prefix, canonical_url, blog_root) ==
    LET title == file.title[1]
        date == file.date[1]
        relative_path == Prefixed(blog_prefix, generate_post_file_path(title, date))
        relative_url == IF blog_root # << >>
                        THEN Join(<< <<"/">>, blog_root, relative_path >>)
                        ELSE Join(<< <<"/">>, relative_path >>)
    IN  [id |-> id,
         body |-> file.body,
         title |-> title,
         categories |-> Split(file.categories[1]),
         date |-> date,
         relative_path |-> relative_path,
         relative_url |-> relative_url,
         canonical_url |-> canonical_url \o relative_url]

\* No exception raised.  An exception records its type, the missing key and
\* the listing position of the file (KeyError) or the post's relative path
\* named in the message (EnvironmentError).
NoError == [kind |-> "none", key |-> "", file |-> 0, path |-> << >>]

\* The loop of get_all_posts from file i on: the posts appended so far, or
\* the KeyError of the first .md file with a missing metadata key.
RECURSIVE LoadFrom(_, _, _, _, _, _)
LoadFrom(input_files, i, acc, blog_prefix, canonical_url, blog_root) ==
    IF i > Len(input_files) THEN [posts |-> acc, error |-> NoError]
    ELSE IF input_files[i].ext # "md"
    THEN LoadFrom(input_files, i + 1, acc, blog_prefix, canonical_url, blog_root)
    ELSE IF MissingKey(input_files[i]) # ""
    THEN [posts |-> << >>,
          error |-> [kind |-> "KeyError", key |-> MissingKey(input_files[i]),
                     file |-> i, path |-> << >>]]
    ELSE LoadFrom(input_files, i + 1,
                  Append(acc, LoadPost(input_files[i], i, blog_prefix,
                                       canonical_url, blog_root)),
                  blog_prefix, canonical_url, blog_root)

get_all_posts(input_files, blog_prefix, canonical_url, blog_root) ==
    LoadFrom(input_files, 1, << >>, blog_prefix, canonical_url, blog_root)

\* ------------------------------------------------------- sort and categories

\* datetime comparison.
DateLess(a, b) ==
    \E i \in 1..5 : a[i] < b[i] /\ \A j \in 1..(i - 1) : a[j] = b[j]

Reverse(s) == [i \in DOMAIN s |-> s[Len(s) + 1 - i]]

\* A stable ascending sort by date: each element goes after every element
\* that does not compare greater.
RECURSIVE StableSortAscending(_)
StableSortAscending(s) ==
    IF s = << >> THEN << >>
    ELSE LET x == s[Len(s)]
             sorted == StableSortAscending(SubSeq(s, 1, Len(s) - 1))
             pos == Cardinality({i \in DOMAIN sorted :
                                    ~DateLess(x.date, sorted[i].date)})
         IN  SubSeq(sorted, 1, pos) \o <<x>> \o SubSeq(sorted, pos + 1, Len(sorted))

\* Variant: an ascending sort reversed afterwards, which reverses ties.
SortThenReverse(posts) == Reverse(StableSortAscending(posts))

\* list.sort(key=lambda i: i['date'], reverse=True): the list is reversed,
\* sorted stably in ascending order and reversed again, which keeps equal
\* keys in their original order.
sort_reverse(posts) == Reverse(StableSortAscending(Reverse(posts)))

\* categories[category].append(post) on an insertion-ordered dictionary,
\* kept as a sequence of [name, posts] entries; posts are held by id.
AppendToCategory(categories, name, id) ==
    IF \E i \in DOMAIN categories : categories[i].name = name
    THEN [i \in DOMAIN categories |->
            IF categories[i].name = name
            THEN [categories[i] EXCEPT !.posts = Append(@, id)]
            ELSE categories[i]]
    ELSE Append(categories, [name |-> name, posts |-> <<id>>])

RECURSIVE AddCategories(_, _, _)
AddCategories(categories, names, id) ==
    IF names = << >> THEN categories
    ELSE AddCategories(AppendToCategory(categories, Head(names), id),
                       Tail(names), id)

\* for post in all_posts: for category in post['categories']: ...
RECURSIVE BuildCategories(_, _)
BuildCategories(categories, posts) ==
    IF posts = << >> THEN categories
    ELSE BuildCategories(
             AddCategories(categories, Head(posts).categories, Head(posts).id),
             Tail(posts))

\* ---------------------------------------------------------------- rendering

Ids(posts) == [i \in DOMAIN posts |-> posts[i].id]

\* Python's s[a:b] for 0 <= a <= b.
Slice(s, a, b) == SubSeq(s, a + 1, IF b < Len(s) THEN b ELSE Len(s))

\* range(start, stop, step) for step > 0.
RECURSIVE PyRange(_, _, _)
PyRange(start, stop, step) ==
    IF start >= stop THEN << >>
    ELSE <<start>> \o PyRange(start + step, stop, step)

\* The template variables the claims read; a key that is not in the
\* dictionary, or holds None, is None.
NoVars == [next_page |-> None, current_posts |-> None, all_posts |-> None,
           now |-> None, post |-> None, post_previous |-> None]

\* One generate_static_page / generate_post write: the file written, the
\* template rendered and the variables handed to template.render.
Page(path, template, vars) == [path |-> path, template |-> template, vars |-> vars]

index_html == <<"i","n","d","e","x",".","h","t","m","l">>

atom_xml == <<"a","t","o","m",".","x","m","l">>

about_me == <<"a","b","o","u","t","-","m","e">>

archives_dir == <<"a","r","c","h","i","v","e","s">>

categories_dir == <<"c","a","t","e","g","o","r","i","e","s">>

page_dir == <<"p","a","g","e">>

\* The pages of one category: its archive, then its feed, both rendered
\* from the template_variables that already hold 'now'.
CategoryPages(blog_dir, vars, category) ==
    LET v == [vars EXCEPT !.all_posts = Some(category.posts)]
        dir == Join(<<blog_dir, categories_dir, category.name>>)
    IN  << Page(Join(<<dir, index_html>>), "archives.html", v),
           Page(Join(<<dir, atom_xml>>), "atom.xml", v) >>

RECURSIVE AllCategoryPages(_, _, _)
AllCategoryPages(blog_dir, vars, categories) ==
    IF categories = << >> THEN << >>
    ELSE CategoryPages(blog_dir, vars, Head(categories))
         \o AllCategoryPages(blog_dir, vars, Tail(categories))

\* generate_static_files without 'additional_pages' in the configuration:
\* the two index pages, about-me, the archives, the feed and the category
\* pages, in the order written.
generate_static_files(site_config, posts, categories, now) ==
    LET v1 == [NoVars EXCEPT !.next_page = Some(1),
                             !.current_posts = Some(Slice(Ids(posts), 0, PageSize))]
        v2 == [v1 EXCEPT !.all_posts = Some(Ids(posts))]
        v3 == [v2 EXCEPT !.now = Some(now)]
    IN  << Page(Join(<<site_config.output_dir, index_html>>), "list.html", v1),
           Page(Join(<<site_config.blog_dir, index_html>>), "list.html", v1),
           Page(Join(<<site_config.output_dir, about_me, index_html>>),
                "about.html", v1),
           Page(Join(<<site_config.blog_dir, archives_dir, index_html>>),
                "archives.html", v2),
           Page(Join(<<site_config.output_dir, atom_xml>>), "atom.xml", v3) >>
        \o AllCategoryPages(site_config.blog_dir, v3, categories)

\* Variant: the last-page test with > in place of >=.
NextPageStrict(current_page, num_posts) ==
    IF current_page * PageSize > num_posts - PageSize
    THEN None ELSE Some(current_page + 1)

\* template_variables['next_page'] of pagination page current_page.
NextPage(current_page, num_posts) ==
    IF current_page * PageSize >= num_posts - PageSize
    THEN None ELSE Some(current_page + 1)

\* generate_pagination_pages: one list.html page per start offset of
\* range(5, num_posts, 5), numbered from 1.
generate_pagination_pages(site_config, posts) ==
    LET num_posts == Len(posts)
        starts == PyRange(PageSize, num_posts, PageSize)
    IN  [current_page \in DOMAIN starts |->
            Page(Join(<<site_config.blog_dir, page_dir, Str(current_page),
                        index_html>>),
                 "list.html",
                 [NoVars EXCEPT
                     !.current_posts =
                         Some(Slice(Ids(posts), starts[current_page],
                                    starts[current_page] + PageSize)),
                     !.next_page = NextPage(current_page, num_posts)])]

\* Variant: the last post keeps itself instead of wrapping to the first.
PreviousIndexNoWrap(i, num_posts) ==
    IF i + 1 < num_posts THEN i + 1 ELSE i

\* The 0-based index of post_previous for the post at 0-based index i:
\* all_posts[i + 1], or all_posts[0] on IndexError.
PreviousIndex(i, num_posts) ==
    IF i + 1 < num_posts THEN i + 1 ELSE 0

\* The page generate_post writes for a post with a body.
PostPage(config, post, previous) ==
    Page(Join(<<config.output_dir, post.relative_path, index_html>>),
         "post_index.html",
         [NoVars EXCEPT !.post = Some(post.id), !.post_previous = Some(previous)])

\* ------------------------------------------------------------------- inputs

MyPost == <<"M","y"," ","P","o","s","t">>

HelloWorld == <<"H","e","l","l","o",","," ","W","o","r","l","d","!">>

Body == <<"<","p",">">>

Newer == <<2024, 3, 7, 9, 30>>

Older == <<2023, 12, 31, 18, 5>>

\* What the Markdown engine returns for one file: the metadata values (the
\* first line of each key, None when the key is missing) and the HTML.
File(ext, title, date, categories, body) ==
    [ext |-> ext, title |-> title, date |-> date, categories |-> categories,
     body |-> body]

\* Well-formed posts: both dates under each title, categories that are
\* empty, single, several and repeated, and posts with an empty body.
WellFormedFiles ==
    { File("md", Some(MyPost), Some(Newer), Some(<<"a">>), Body),
      File("md", Some(MyPost), Some(Older), Some(<<"a"," ","b">>), Body),
      File("md", Some(MyPost), Some(Older), Some(<<"a">>), Body),
      File("md", Some(HelloWorld), Some(Newer), Some(<<"a"," ","a">>), Body),
      File("md", Some(HelloWorld), Some(Older), Some(<< >>), Body),
      File("md", Some(HelloWorld), Some(Newer), Some(<<"b">>), << >>),
      File("md", Some(MyPost), Some(Older), Some(<<"b">>), << >>) }

\* A .md file without title, without date, without categories, and a file
\* that is not a .md file.
MalformedFiles ==
    { File("md", None, Some(Newer), Some(<<"a">>), Body),
      File("md", Some(MyPost), None, Some(<<"a">>), Body),
      File("md", Some(MyPost), Some(Newer), None, Body),
      File("txt", None, None, None, << >>) }

DefaultConfig ==
    [output_dir |-> <<"o">>, blog_prefix |-> <<"b">>, blog_root |-> << >>,
     url |-> <<"u">>, blog_dir |-> << >>]

\* Short content directories over every file shape.
MixedInputs ==
    {[files |-> fs, config |-> DefaultConfig] :
        fs \in UNION {[1..n -> WellFormedFiles \cup MalformedFiles] :
                        n \in 0..MaxFiles}}

\* Long content directories of well-formed posts "Post <i>": the first k
\* listed are the older ones.
PlainInputs ==
    {[files |-> [i \in 1..nk[1] |->
                    File("md", Some(<<"P","o","s","t"," ">> \o Str(i)),
                         Some(IF i <= nk[2] THEN Older ELSE Newer),
                         Some(<<"a">>), Body)],
      config |-> DefaultConfig] :
        nk \in {x \in ((MaxFiles + 1)..MaxPlainFiles) \X (0..MaxPlainFiles) :
                    x[2] <= x[1]}}

TitleAlphabet == {"M", "y", " ", "-", "!"}

Titles ==
    UNION {[1..n -> TitleAlphabet] : n \in 0..MaxTitleLen} \cup {MyPost, HelloWorld}

Configs ==
    {[output_dir |-> o, blog_prefix |-> p, blog_root |-> r, url |-> <<"u">>,
      blog_dir |-> << >>] :
        o \in { <<"o">>, <<"o","/">> },
        p \in { << >>, <<"b">>, <<"b","/">>, <<"/","b">> },
        r \in { << >>, <<"r">>, <<"/","r">> }}

\* One post: under every title with the default configuration, and under
\* every configuration with a title whose slug is empty and two whose slug
\* is not.
TitleInputs ==
    {[files |-> <<File("md", Some(tc[1]), Some(Newer), Some(<<"a">>), Body)>>,
      config |-> tc[2]] :
        tc \in (Titles \X {DefaultConfig})
                  \cup ({MyPost, HelloWorld, <<"!">>} \X Configs)}

Inputs == MixedInputs \cup PlainInputs \cup TitleInputs

\* What <root>/static holds, and what an output directory left by an
\* earlier run or by hand may hold.
StaticContent == {"static"}

PriorOutputs == { {}, {"static", "stale"} }

Nows == {1, 2}

\* -------------------------------------------------------------------- state

VARIABLES
    site_config,     \* config.CONFIG
    files,           \* os.listdir(content_dir), in listing order
    outdir,          \* entries of the output directory not written by this run
    pc,              \* start, load, assemble, static, pagination, posts, done, aborted
    error,           \* the exception that ended the run, or NoError
    all_posts,       \* generate_all_files' all_posts
    categories,      \* generate_all_files' categories
    written,         \* the pages written by this run, in order
    index,           \* 0-based index of the post loop of generate_all_files
    post_previous,   \* post id -> post['post_previous'] (an id), None if unset
    previous_sets    \* post id -> number of assignments to post['post_previous']

vars == <<site_config, files, outdir, pc, error, all_posts, categories, written,
          index, post_previous, previous_sets>>

Init ==
    /\ \E input \in Inputs :
          /\ files = input.files
          /\ site_config = input.config
    /\ outdir \in PriorOutputs
    /\ pc = "start"
    /\ error = NoError
    /\ all_posts = << >>
    /\ categories = << >>
    /\ written = << >>
    /\ index = 0
    /\ post_previous = << >>
    /\ previous_sets = << >>

\* generate_site up to the call of generate_all_files: blog_dir is set and
\* the output directory is removed if it exists and replaced by a copy of
\* the static content.
copy_static_content ==
    /\ pc = "start"
    /\ site_config' = [site_config EXCEPT
                          !.blog_dir = Join(<<site_config.output_dir,
                                              site_config.blog_prefix>>)]
    /\ outdir' = StaticContent
    /\ pc' = "load"
    /\ UNCHANGED <<files, error, all_posts, categories, written, index,
                   post_previous, previous_sets>>

\* get_all_posts: every .md file becomes a post, or the first KeyError
\* ends the run.
LoadPosts ==
    /\ pc = "load"
    /\ LET loaded == get_all_posts(files, site_config.blog_prefix,
                                   site_config.url, site_config.blog_root)
       IN  \/ /\ loaded.error = NoError
              /\ all_posts' = loaded.posts
              /\ post_previous' = [id \in Range(Ids(loaded.posts)) |-> None]
              /\ previous_sets' = [id \in Range(Ids(loaded.posts)) |-> 0]
              /\ pc' = "assemble"
              /\ UNCHANGED error
           \/ /\ loaded.error # NoError
              /\ error' = loaded.error
              /\ pc' = "aborted"
              /\ UNCHANGED <<all_posts, post_previous, previous_sets>>
    /\ UNCHANGED <<site_config, files, outdir, categories, written, index>>

\* all_posts.sort(...) and the category index.
SortAndCategorize ==
    /\ pc = "assemble"
    /\ all_posts' = sort_reverse(all_posts)
    /\ categories' = BuildCategories(<< >>, all_posts')
    /\ pc' = "static"
    /\ UNCHANGED <<site_config, files, outdir, error, written, index,
                   post_previous, previous_sets>>

\* generate_static_files, with datetime.now() any timestamp.
GenerateStaticFiles ==
    /\ pc = "static"
    /\ \E now \in Nows :
          written' = written \o generate_static_files(site_config, all_posts,
                                                      categories, now)
    /\ pc' = "pagination"
    /\ UNCHANGED <<site_config, files, outdir, error, all_posts, categories,
                   index, post_previous, previous_sets>>

GeneratePaginationPages ==
    /\ pc = "pagination"
    /\ written' = written \o generate_pagination_pages(site_config, all_posts)
    /\ index' = 0
    /\ pc' = IF all_posts = << >> THEN "done" ELSE "posts"
    /\ UNCHANGED <<site_config, files, outdir, error, all_posts, categories,
                   post_previous, previous_sets>>

\* The position after the post at 0-based index i was generated.
AfterPost(i) == IF i + 1 < Len(all_posts) THEN "posts" ELSE "done"

\* Variant: a post with an empty body is skipped and the loop goes on.
generate_post_skipping_empty ==
    /\ pc = "posts"
    /\ LET post == all_posts[index + 1]
           previous == all_posts[PreviousIndex(index, Len(all_posts)) + 1].id
       IN  /\ post_previous' = [post_previous EXCEPT ![post.id] = Some(previous)]
           /\ previous_sets' = [previous_sets EXCEPT ![post.id] = @ + 1]
           /\ written' = IF post.body = << >> THEN written
                         ELSE Append(written, PostPage(site_config, post, previous))
           /\ index' = index + 1
           /\ pc' = AfterPost(index)
    /\ UNCHANGED <<site_config, files, outdir, all_posts, categories, error>>

\* One iteration of the post loop: post_previous is assigned, then
\* generate_post raises on an empty body or writes the post's page (the
\* 'post' key it adds to site_config is read by no later step).
generate_post ==
    /\ pc = "posts"
    /\ LET post == all_posts[index + 1]
           previous == all_posts[PreviousIndex(index, Len(all_posts)) + 1].id
       IN  /\ post_previous' = [post_previous EXCEPT ![post.id] = Some(previous)]
           /\ previous_sets' = [previous_sets EXCEPT ![post.id] = @ + 1]
           /\ \/ /\ post.body = << >>
                 /\ error' = [kind |-> "EnvironmentError", key |-> "", file |-> 0,
                              path |-> post.relative_path]
                 /\ pc' = "aborted"
                 /\ UNCHANGED <<written, index>>
              \/ /\ post.body # << >>
                 /\ written' = Append(written, PostPage(site_config, post, previous))
                 /\ index' = index + 1
                 /\ pc' = AfterPost(index)
                 /\ UNCHANGED error
    /\ UNCHANGED <<site_config, files, outdir, all_posts, categories>>

Next ==
    \/ copy_static_content
    \/ LoadPosts
    \/ SortAndCategorize
    \/ GenerateStaticFiles
    \/ GeneratePaginationPages
    \/ generate_post

Spec == Init /\ [][Next]_vars

\* ------------------------------------------------------------ run positions

\* get_all_posts has returned the post list.
Loaded == pc \in {"assemble", "static", "pagination", "posts", "done"}
          \/ (pc = "aborted" /\ error.kind = "EnvironmentError")

\* all_posts is sorted and the category index is built.
Assembled == Loaded /\ pc # "assemble"

\* generate_pagination_pages has returned.
Paginated == Assembled /\ pc \notin {"static", "pagination"}

MdFiles == {i \in DOMAIN files : files[i].ext = "md"}

\* The pages this run rendered from list.html, in order: the two index
\* pages, then the pagination pages.
ListPages ==
    LET IsList(r) == r.template = "list.html"
    IN  SelectSeq(written, IsList)

PaginationPages == SubSeq(ListPages, 3, Len(ListPages))

\* Some page written for the post with this id.
PostWritten(id) ==
    \E i \in DOMAIN written :
        written[i].template = "post_index.html" /\ written[i].vars.post = Some(id)

\* ------------------------------------------------------------------- claims

\* C1: for a sorted post list of length n, the pagination pages are exactly
\* the windows k = 1, 2, ... with 5k < n; window k holds posts[5k : 5k+5] in
\* order, is written to <blog_dir>/page/<k>/index.html, is never empty, and
\* its next_page is k+1 unless 5k >= n - 5, when it is None (so exactly the
\* last window has no next page); n = 12 gives page 1 = posts[5:10] with
\* next_page 2 and page 2 = posts[10:12] with next_page None.
C1_PaginationWindows ==
    Paginated =>
        LET n == Len(all_posts)
            ids == Ids(all_posts)
            pages == PaginationPages
        IN  /\ Len(pages) = Cardinality({k \in 1..n : PageSize * k < n})
            /\ \A k \in DOMAIN pages :
                  /\ pages[k].path = Join(<<site_config.blog_dir, page_dir,
                                            <<DigitChars[k + 1]>>, index_html>>)
                  /\ pages[k].vars.current_posts =
                        Some([i \in 1..(IF n - PageSize * k < PageSize
                                        THEN n - PageSize * k ELSE PageSize)
                                 |-> ids[PageSize * k + i]])
                  /\ pages[k].vars.current_posts[1] # << >>
                  /\ pages[k].vars.next_page =
                        (IF PageSize * k >= n - PageSize THEN None ELSE Some(k + 1))
                  /\ (pages[k].vars.next_page = None) <=> (k = Len(pages))
            /\ n = 12 =>
                  /\ Len(pages) = 2
                  /\ pages[1].vars.current_posts = Some(SubSeq(ids, 6, 10))
                  /\ pages[1].vars.next_page = Some(2)
                  /\ pages[2].vars.current_posts = Some(SubSeq(ids, 11, 12))
                  /\ pages[2].vars.next_page = None

C1_Witness ==
    /\ pc = "done"
    /\ Len(all_posts) = 12
    /\ Len(PaginationPages) = 2

\* C2: post_previous is assigned at most once per post and, once the run is
\* done, exactly once; the post at sorted position i < n points to the post
\* at position i + 1 and the last (oldest) post points to the first
\* (newest); for [P1, P2, P3]: P1 -> P2, P2 -> P3, P3 -> P1.
C2_PreviousPost ==
    Assembled =>
        LET n == Len(all_posts)
        IN  /\ \A i \in 1..n :
                  LET id == all_posts[i].id
                  IN  /\ previous_sets[id] <= 1
                      /\ (previous_sets[id] = 1) <=> (post_previous[id] # None)
                      /\ post_previous[id] # None =>
                            post_previous[id] =
                                Some(all_posts[IF i < n THEN i + 1 ELSE 1].id)
                      /\ (pc = "done" \/ (Paginated /\ i <= index)) =>
                            previous_sets[id] = 1
            /\ (pc = "done" /\ n = 3) =>
                  /\ post_previous[all_posts[1].id] = Some(all_posts[2].id)
                  /\ post_previous[all_posts[2].id] = Some(all_posts[3].id)
                  /\ post_previous[all_posts[3].id] = Some(all_posts[1].id)

C2_Witness ==
    /\ pc = "done"
    /\ Len(all_posts) = 3
    /\ post_previous[all_posts[3].id] = Some(all_posts[1].id)

\* C3 (as claimed): each category's bucket is exactly the subsequence of the
\* sorted list made of the posts that declare the category, every declared
\* category has one bucket, and so a post is in a bucket exactly once even
\* when its metadata repeats the category.
C3_BucketsAreSubsequences ==
    Assembled =>
        /\ \A c \in DOMAIN categories :
              LET Declares(post) == categories[c].name \in Range(post.categories)
              IN  categories[c].posts = Ids(SelectSeq(all_posts, Declares))
        /\ \A c, d \in DOMAIN categories :
              categories[c].name = categories[d].name => c = d
        /\ \A i \in DOMAIN all_posts : \A name \in Range(all_posts[i].categories) :
              \E c \in DOMAIN categories : categories[c].name = name

\* C4: the sorted list is a permutation of the loader's output (one post per
\* .md file), no post is followed by a more recent one, and posts with the
\* same timestamp keep the order the loader returned them in.
C4_StableSortNewestFirst ==
    Assembled =>
        /\ Len(all_posts) = Cardinality(MdFiles)
        /\ Range(Ids(all_posts)) = MdFiles
        /\ \A i \in DOMAIN all_posts :
              all_posts[i].date = files[all_posts[i].id].date[1]
        /\ \A i, j \in DOMAIN all_posts :
              i < j =>
                 /\ ~DateLess(all_posts[i].date, all_posts[j].date)
                 /\ all_posts[i].date = all_posts[j].date =>
                       all_posts[i].id < all_posts[j].id

C4_Witness ==
    /\ Assembled
    /\ Len(all_posts) = 3
    /\ all_posts[1].date = all_posts[2].date
    /\ DateLess(all_posts[3].date, all_posts[2].date)
    /\ Ids(all_posts) = <<2, 3, 1>>

\* The path with a '/' after it, unless it is empty or already ends in '/'.
WithSeparator(path) ==
    IF path = << >> \/ EndsWithSlash(path) THEN path ELSE path \o <<"/">>

\* YYYY/MM/DD/<slug(title)> of a post.
DatedSlug(post) == Strftime(post.date) \o generate_post_file_name(post.title)

\* "My Post" dated 2024-03-07 gives 2024/03/07/my-post.
MyPostExample(post) ==
    (post.title = MyPost /\ post.date = Newer) =>
        DatedSlug(post) = <<"2","0","2","4","/","0","3","/","0","7","/",
                            "m","y","-","p","o","s","t">>

C6_SlugIdempotent ==
    Loaded =>
        \A i \in DOMAIN all_posts :
            LET slug == generate_post_file_name(all_posts[i].title)
            IN  /\ generate_post_file_name(slug) = slug
                /\ all_posts[i].title = HelloWorld =>
                      slug = <<"h","e","l","l","o","-","w","o","r","l","d">>

\* C6 (amended): the slug of a slug is the slug with its hyphens removed, so
\* it is the slug itself exactly when the title holds no space; and the
\* slug of "Hello, World!" is "hello-world".
C6_SlugOfSlugDropsHyphens ==
    Loaded =>
        \A i \in DOMAIN all_posts :
            LET title == all_posts[i].title
                slug == generate_post_file_name(title)
                NotHyphen(c) == c # "-"
            IN  /\ generate_post_file_name(slug) = SelectSeq(slug, NotHyphen)
                /\ (generate_post_file_name(slug) = slug) <=> (" " \notin Range(title))
                /\ title = HelloWorld =>
                      slug = <<"h","e","l","l","o","-","w","o","r","l","d">>

C6_Witness ==
    /\ Loaded
    /\ Len(all_posts) = 1
    /\ all_posts[1].title = HelloWorld
    /\ generate_post_file_name(generate_post_file_name(all_posts[1].title))
          = <<"h","e","l","l","o","w","o","r","l","d">>

\* C7: a run ended by EnvironmentError stopped at the first post, in sorted
\* order, with an empty body; the error names that post's relative path; no
\* page is written for a post with an empty body nor for any post after it;
\* and no run over a post with an empty body reaches the end.
C7_AbortOnEmptyBody ==
    Assembled =>
        /\ (pc = "aborted" /\ error.kind = "EnvironmentError") =>
              /\ all_posts[index + 1].body = << >>
              /\ error.path = all_posts[index + 1].relative_path
              /\ \A i \in 1..index : all_posts[i].body # << >>
        /\ \A i, j \in DOMAIN all_posts :
              (all_posts[i].body = << >> /\ i <= j) => ~PostWritten(all_posts[j].id)
        /\ pc = "done" => \A i \in DOMAIN all_posts : all_posts[i].body # << >>

C7_Witness ==
    /\ pc = "aborted"
    /\ error.kind = "EnvironmentError"
    /\ Len(all_posts) = 3
    /\ index = 1
    /\ PostWritten(all_posts[1].id)
    /\ ~PostWritten(all_posts[3].id)

\* C8 (as claimed): when some .md file lacks title or date the load fails
\* and returns no posts; otherwise it succeeds with one post per .md file,
\* and a post whose file has no categories key has no categories and is in
\* no bucket.
C8_MissingCategoriesIsLenient ==
    pc \notin {"start", "load"} =>
        IF \E i \in MdFiles : files[i].title = None \/ files[i].date = None
        THEN pc = "aborted" /\ error.kind = "KeyError" /\ all_posts = << >>
        ELSE /\ error.kind # "KeyError"
             /\ Range(Ids(all_posts)) = MdFiles
             /\ \A i \in DOMAIN all_posts :
                   files[all_posts[i].id].categories = None =>
                      /\ all_posts[i].categories = << >>
                      /\ \A c \in DOMAIN categories :
                            all_posts[i].id \notin Range(categories[c].posts)

\* C9 (as claimed): what the output directory held before the run does not
\* survive it, and the generation timestamp 'now' is handed to renders of
\* the feed template atom.xml only, never to a render of an index.html.
C9_NowOnlyInFeed ==
    /\ pc # "start" => outdir = StaticContent
    /\ \A w \in DOMAIN written :
          written[w].vars.now # None =>
             /\ written[w].template = "atom.xml"
             /\ SubSeq(written[w].path, Len(written[w].path) - Len(index_html) + 1,
                       Len(written[w].path)) # index_html

\* C10 (as claimed): after a successful run every next_page handed to a
\* list.html render names a pagination page of the same run that holds at
\* least one post.
C10_NextPageExists ==
    pc = "done" =>
        \A w \in DOMAIN ListPages :
            ListPages[w].vars.next_page # None =>
                \E k \in DOMAIN PaginationPages :
                    /\ ListPages[w].vars.next_page = Some(k)
                    /\ PaginationPages[k].path =
                          Join(<<site_config.blog_dir, page_dir, Str(k), index_html>>)
                    /\ PaginationPages[k].vars.current_posts[1] # << >>

====
